---- MODULE Spec2Model ----
(***************************************************************************)
(* Sherlock incident-triage backend: the /triage pipeline of               *)
(* backend/app/main.py, the evidence scorer of backend/app/correlation.py, *)
(* the output validator of backend/app/utils.py, the model gateway of     *)
(* backend/app/rag.py, the retrying gateway of backend/app/rag_new.py and  *)
(* the collectors of backend/app/collectors.py.                            *)
(*                                                                         *)
(* Strings that the code inspects character by character (evidence text,   *)
(* the query) are sequences of one-character strings.  Opaque strings      *)
(* (hypothesis, action, evidence ids) are TLA+ strings.  An ISO timestamp  *)
(* string is the record of what datetime.fromisoformat reads from it.      *)
(* Wall-clock latency is not modelled.                                     *)
(***************************************************************************)
EXTENDS Integers, Sequences, FiniteSets, TLC

VARIABLES
    pc,              \* position of the triage handler
    req,             \* TriageRequest
    evidence_items,  \* main.py evidence_items
    top_k,           \* main.py top_k
    llm_json,        \* main.py llm_json
    result,          \* what the handler answered
    calls,           \* number of collector / scorer / model / validator calls
    hist,            \* what the gateway and the validator answered in this request
    env,             \* provider configuration read by azure_config / openai_key
    c_in,            \* correlate_evidence: arguments
    c_out,           \* correlate_evidence: outcome
    v_in,            \* validate_llm_output: arguments
    v_out,           \* validate_llm_output: outcome
    d_in,            \* collect_all_evidence: the collectors' records and the arguments
    d_out,           \* collect_all_evidence: the list before and after the de-dup loop
    g                \* rag_new.build_prompt_and_query: the retry loop

vars ==
    <<pc, req, evidence_items, top_k, llm_json, result, calls, hist, env,
      c_in, c_out, v_in, v_out, d_in, d_out, g>>

(***************************************************************************)
(* Bounds of the model.                                                    *)
(***************************************************************************)
MaxLogs == 2

MaxDeploys == 1

MaxItems == 2

(***************************************************************************)
(* Character-level string operations (str.lower, str.split, str.isdigit,   *)
(* int, the in operator on strings).                                       *)
(***************************************************************************)
Uppers ==
    <<"A","B","C","D","E","F","G","H","I","J","K","L","M",
      "N","O","P","Q","R","S","T","U","V","W","X","Y","Z">>

Lowers ==
    <<"a","b","c","d","e","f","g","h","i","j","k","l","m",
      "n","o","p","q","r","s","t","u","v","w","x","y","z">>

DigitChars ==
    <<"0","1","2","3","4","5","6","7","8","9">>

Whitespace ==
    {" "}

LowerChar(c) ==
    IF \E i \in 1..26 : Uppers[i] = c
    THEN Lowers[CHOOSE i \in 1..26 : Uppers[i] = c]
    ELSE c

Lower(s) ==
    [i \in 1..Len(s) |-> LowerChar(s[i])]

Contains(s, k) ==
    \E i \in 1..(Len(s) - Len(k) + 1) : SubSeq(s, i, i + Len(k) - 1) = k

Prefix(s, n) ==
    SubSeq(s, 1, IF Len(s) < n THEN Len(s) ELSE n)

\* the set of whitespace-separated tokens of s: set(s.split())
Tokens(s) ==
    LET starts == { i \in 1..Len(s) :
                      s[i] \notin Whitespace /\ (i = 1 \/ s[i - 1] \in Whitespace) }
        end(i) == CHOOSE j \in i..Len(s) :
                      /\ \A k \in i..j : s[k] \notin Whitespace
                      /\ (j = Len(s) \/ s[j + 1] \in Whitespace)
    IN { SubSeq(s, i, end(i)) : i \in starts }

Strip(s) ==
    IF \A i \in 1..Len(s) : s[i] \in Whitespace
    THEN <<>>
    ELSE LET first == CHOOSE i \in 1..Len(s) :
                          /\ s[i] \notin Whitespace
                          /\ \A j \in 1..(i - 1) : s[j] \in Whitespace
             last == CHOOSE i \in 1..Len(s) :
                          /\ s[i] \notin Whitespace
                          /\ \A j \in (i + 1)..Len(s) : s[j] \in Whitespace
         IN SubSeq(s, first, last)

IsDigit(tok) ==
    /\ Len(tok) > 0
    /\ \A i \in 1..Len(tok) : \E d \in 1..10 : DigitChars[d] = tok[i]

DigitVal(c) ==
    (CHOOSE d \in 1..10 : DigitChars[d] = c) - 1

RECURSIVE IntOf(_)
IntOf(tok) ==
    IF tok = <<>> THEN 0
    ELSE 10 * IntOf(SubSeq(tok, 1, Len(tok) - 1)) + DigitVal(tok[Len(tok)])

Repeat(c, n) ==
    [i \in 1..n |-> c]

(***************************************************************************)
(* Timestamps.  A timestamp field is absent (None or the empty string),    *)
(* or a string: "garbage" is one datetime.fromisoformat rejects, "naive"   *)
(* an ISO string with no zone, "Z" and "offset" ISO strings with a zone.   *)
(* wall is the clock reading written in the string, in seconds since       *)
(* 1970-01-01T00:00:00; off is the written UTC offset in seconds.          *)
(***************************************************************************)
NoTs ==
    [form |-> "none", wall |-> 0, off |-> 0]

GarbageTs ==
    [form |-> "garbage", wall |-> 0, off |-> 0]

NaiveTs(w) ==
    [form |-> "naive", wall |-> w, off |-> 0]

ZuluTs(w) ==
    [form |-> "Z", wall |-> w, off |-> 0]

OffsetTs(w, o) ==
    [form |-> "offset", wall |-> w, off |-> o]

\* datetime.datetime.utcnow() at scoring time: a naive UTC clock reading
NowWall == 100000

\* the recency window of the scorer, in seconds
RecencyWindow == 3600

\* datetime.fromisoformat(ts.replace("Z", "+00:00")): does it parse
FromIsoOk(ts) ==
    ts.form \in {"naive", "Z", "offset"}

\* tzinfo of the parsed datetime is set
IsAware(ts) ==
    ts.form \in {"Z", "offset"}

(***************************************************************************)
(* correlate_evidence (correlation.py)                                     *)
(***************************************************************************)
severity_keywords ==
    <<<<"e","r","r","o","r">>,
      <<"e","x","c","e","p","t","i","o","n">>,
      <<"t","i","m","e","o","u","t">>,
      <<"o","o","m">>,
      <<"o","u","t","o","f","m","e","m","o","r","y">>,
      <<"e","x","h","a","u","s","t","e","d">>,
      <<"c","r","i","t","i","c","a","l">>,
      <<"f","a","t","a","l">>,
      <<"p","a","n","i","c">>>>

type_weight(t) ==
    CASE t = "metric" -> 40
      [] t = "splunk_log" -> 30
      [] t = "log" -> 20
      [] t = "git" -> 10
      [] OTHER -> 5

SeverityBump(text) ==
    IF \E k \in 1..Len(severity_keywords) : Contains(text, severity_keywords[k])
    THEN 30 ELSE 0

OverlapBump(q_tokens, text) ==
    IF q_tokens # {} /\ (q_tokens \cap Tokens(text)) # {} THEN 25 ELSE 0

NumericBump(text) ==
    IF \E tok \in Tokens(text) : IsDigit(tok) /\ Len(tok) <= 4 THEN 5 ELSE 0

\* delta = now - t.replace(tzinfo=None): the zone is dropped, not converted
RecencyDelta(ts) ==
    NowWall - ts.wall

Abs(n) ==
    IF n < 0 THEN -n ELSE n

RecencyBump(ts) ==
    IF ts.form # "none" /\ FromIsoOk(ts) /\ Abs(RecencyDelta(ts)) <= RecencyWindow
    THEN 20 ELSE 0

TypeBump(type, text) ==
    IF type = "metric"
    THEN IF Contains(text, <<"%">>)
            \/ \E tok \in Tokens(text) : IsDigit(tok) /\ IntOf(tok) >= 80
         THEN 10 ELSE 0
    ELSE IF type = "splunk_log"
         THEN IF Len(text) > 200 THEN 8 ELSE 0
         ELSE 0

ClampNone(score) ==
    score

Clamp(score) ==
    IF score < 100 THEN score ELSE 100

ScoreOf(ev, query) ==
    LET text == Lower(ev.text)
        q_tokens == Tokens(Lower(query))
    IN Clamp(type_weight(ev.type) + SeverityBump(text) + OverlapBump(q_tokens, text)
             + NumericBump(text) + RecencyBump(ev.timestamp) + TypeBump(ev.type, text))

Scored(ev, query) ==
    [id |-> ev.id, type |-> ev.type, text |-> ev.text,
     timestamp |-> ev.timestamp, score |-> ScoreOf(ev, query)]

\* _sort_key: the datetime of the key; datetime.fromtimestamp(0) is naive
SortInstant(ts) ==
    IF ts.form # "none" /\ FromIsoOk(ts) THEN ts.wall - ts.off ELSE 0

SortAware(ts) ==
    ts.form # "none" /\ FromIsoOk(ts) /\ IsAware(ts)

\* key(a) < key(b) on (score, datetime) tuples of one awareness
KeyLess(a, b) ==
    \/ a.score < b.score
    \/ a.score = b.score /\ SortInstant(a.timestamp) < SortInstant(b.timestamp)

\* comparing the keys raises TypeError: equal scores, naive against aware
KeyCompareRaises(a, b) ==
    a.score = b.score /\ SortAware(a.timestamp) # SortAware(b.timestamp)

RECURSIVE InsertDesc(_, _)
InsertDesc(x, s) ==
    IF s = <<>> THEN <<x>>
    ELSE IF KeyLess(Head(s), x)
         THEN <<x>> \o s
         ELSE <<Head(s)>> \o InsertDesc(x, Tail(s))

RECURSIVE SortDescFrom(_, _, _)
SortDescFrom(s, i, acc) ==
    IF i > Len(s) THEN acc ELSE SortDescFrom(s, i + 1, InsertDesc(s[i], acc))

\* scored.sort(key=_sort_key, reverse=True): stable, descending
SortDesc(s) ==
    SortDescFrom(s, 1, <<>>)

SortRaises(s) ==
    \E i, j \in 1..Len(s) : i # j /\ KeyCompareRaises(s[i], s[j])

\* outcome of correlate_evidence(evidence_items, query)
correlate_evidence(items, query) ==
    LET scored == [i \in 1..Len(items) |-> Scored(items[i], query)]
    IN IF SortRaises(scored)
       THEN [raised |-> TRUE, items |-> <<>>]
       ELSE [raised |-> FALSE, items |-> SortDesc(scored)]

(***************************************************************************)
(* Inputs of the scorer checked as a pure function: evidence lists of up   *)
(* to MaxItems items over a pool of (type, text, timestamp) shapes, ids    *)
(* given by position, and a few queries.                                   *)
(***************************************************************************)
TxtOom50 ==
    <<"O","O","M"," ","5","0">>

TxtPool85 ==
    <<"o","o","m"," ","p","o","o","l"," ","8","5">>

TxtCpuPct ==
    <<"c","p","u"," ","9","%">>

TxtPool ==
    <<"p","o","o","l">>

TxtDigits5 ==
    <<"1","2","3","4","5">>

\* a text longer than 200 characters with a severity keyword, a query token and a number
TxtLong ==
    <<"o","o","m"," ","5"," ","p","o","o","l"," ">> \o Repeat("x", 200)

\* the log line of the pool scenario
TxtPoolExhausted ==
    <<"E","R","R","O","R"," ","c","o","n","n","e","c","t","i","o","n"," ",
      "p","o","o","l"," ","e","x","h","a","u","s","t","e","d",":"," ","m",
      "a","x","_","s","i","z","e","=","5","0"," ","u","s","e","d","=","5",
      "0">>

\* the deploy message of the pool scenario
TxtPoolCommit ==
    <<"C","o","m","m","i","t"," ","a","b","c","1","2","3",":"," ","i","n",
      "c","r","e","a","s","e","d"," ","c","o","n","n","e","c","t","i","o",
      "n"," ","p","o","o","l"," ","d","e","f","a","u","l","t"," ","t","o",
      " ","5","0">>

QPool ==
    <<"p","o","o","l">>

QOomUpper ==
    <<"O","O","M"," "," ","x">>

QEmpty ==
    <<>>

QBlank ==
    <<" ">>

EvidenceShapes ==
    { [type |-> "log", text |-> TxtOom50, timestamp |-> ZuluTs(NowWall - 60)],
      [type |-> "log", text |-> TxtOom50, timestamp |-> NoTs],
      [type |-> "log", text |-> TxtOom50, timestamp |-> NaiveTs(0 - 86400)],
      [type |-> "log", text |-> TxtOom50, timestamp |-> NaiveTs(5000)],
      [type |-> "log", text |-> TxtOom50, timestamp |-> GarbageTs],
      [type |-> "log", text |-> TxtOom50, timestamp |-> ZuluTs(5000)],
      [type |-> "metric", text |-> TxtPool85, timestamp |-> ZuluTs(NowWall - 60)],
      [type |-> "splunk_log", text |-> TxtLong, timestamp |-> NaiveTs(NowWall - 60)],
      [type |-> "git", text |-> TxtPool, timestamp |-> OffsetTs(NowWall + 3000, 7200)],
      [type |-> "deploy", text |-> TxtCpuPct, timestamp |-> NoTs],
      [type |-> "metric", text |-> TxtDigits5, timestamp |-> GarbageTs],
      [type |-> "metric", text |-> TxtCpuPct, timestamp |-> ZuluTs(7000)],
      [type |-> "log", text |-> TxtPoolExhausted, timestamp |-> NoTs],
      [type |-> "deploy", text |-> TxtPoolCommit, timestamp |-> NoTs],
      [type |-> "search_log", text |-> TxtLong, timestamp |-> NoTs] }

PositionIds ==
    <<"ev#1", "ev#2", "ev#3", "ev#4">>

EvidenceLists ==
    UNION { { [i \in 1..n |-> [id |-> PositionIds[i], type |-> f[i].type,
                               text |-> f[i].text, timestamp |-> f[i].timestamp]]
              : f \in [1..n -> EvidenceShapes] }
            : n \in 0..MaxItems }

ScorerQueries ==
    {QPool, QOomUpper, QEmpty}

(***************************************************************************)
(* JSON values.  A parsed value is a record: kind is "dict", "list" or     *)
(* "null"; keys are the keys of a dict (the members of a list); the other  *)
(* fields hold the values under the keys of that name (a default when the  *)
(* key is absent).  A list value (root_causes, suggested_actions) that     *)
(* cannot be iterated has iter = FALSE; an entry that is no dict, or whose *)
(* "evidence" cannot be iterated, has ok = FALSE.                          *)
(***************************************************************************)
NoReq ==
    [query |-> <<>>, time_window_minutes |-> 0, max_evidence |-> 0]

NoAudit ==
    [request |-> NoReq, evidence_used |-> <<>>]

EmptyMap ==
    [ismap |-> TRUE, map |-> <<>>]

EmptyList ==
    [iter |-> TRUE, items |-> <<>>]

NoDoc ==
    [kind |-> "null", keys |-> {}, hypothesis |-> "", confidence |-> 0,
     root_causes |-> EmptyList, suggested_actions |-> EmptyList,
     evidence_map |-> EmptyMap, audit |-> NoAudit]

RootCause(cause, evidence) ==
    [ok |-> TRUE, cause |-> cause, evidence |-> evidence]

Action(action, risk, evidence) ==
    [ok |-> TRUE, action |-> action, risk |-> risk, evidence |-> evidence]

ListOf(items) ==
    [iter |-> TRUE, items |-> items]

\* every evidence id cited by the entries of a list value
Cited(list) ==
    UNION { { list.items[i].evidence[j] : j \in 1..Len(list.items[i].evidence) }
            : i \in 1..Len(list.items) }

IdsOf(items) ==
    [i \in 1..Len(items) |-> items[i].id]

IdSet(items) ==
    {items[i].id : i \in 1..Len(items)}

\* {ev["id"]: ev["text"][:800] for ev in items}
ServerEvidenceMap(items) ==
    [ismap |-> TRUE,
     map |-> [id \in IdSet(items) |->
                Prefix(items[CHOOSE i \in 1..Len(items) :
                                 /\ items[i].id = id
                                 /\ \A j \in (i + 1)..Len(items) : items[j].id # id].text,
                       800)]]

(***************************************************************************)
(* validate_llm_output (utils.py)                                          *)
(***************************************************************************)
required ==
    {"hypothesis", "confidence", "root_causes", "suggested_actions",
     "evidence_map", "impact"}

\* the first entry of a list value at which the reference check stops, 0 if none
FirstBad(list, allowed_ids) ==
    LET bad(i) == \/ ~list.items[i].ok
                  \/ \E j \in 1..Len(list.items[i].evidence) :
                        list.items[i].evidence[j] \notin allowed_ids
    IN IF \E i \in 1..Len(list.items) : bad(i)
       THEN CHOOSE i \in 1..Len(list.items) :
                bad(i) /\ \A k \in 1..(i - 1) : ~bad(k)
       ELSE 0

\* the outcome of one of the two reference loops: "ok", "unknown" or "malformed"
RefCheck(list, allowed_ids) ==
    IF ~list.iter THEN "malformed"
    ELSE LET i == FirstBad(list, allowed_ids)
         IN IF i = 0 THEN "ok"
            ELSE IF ~list.items[i].ok THEN "malformed" ELSE "unknown"

Verdict(valid, reason) ==
    [valid |-> valid, reason |-> reason]

validate_no_reference_check(obj, allowed_ids) ==
    IF obj.kind # "dict" THEN Verdict(FALSE, "output not a dict")
    ELSE IF ~(required \subseteq obj.keys) THEN Verdict(FALSE, "missing keys")
    ELSE IF ~obj.evidence_map.ismap THEN Verdict(FALSE, "evidence_map not a dict")
    ELSE Verdict(TRUE, "ok")

validate_rootcauses_only(obj, allowed_ids) ==
    IF obj.kind # "dict" THEN Verdict(FALSE, "output not a dict")
    ELSE IF ~(required \subseteq obj.keys) THEN Verdict(FALSE, "missing keys")
    ELSE IF ~obj.evidence_map.ismap THEN Verdict(FALSE, "evidence_map not a dict")
    ELSE IF RefCheck(obj.root_causes, allowed_ids) = "unknown"
         THEN Verdict(FALSE, "root_causes references unknown id")
    ELSE IF RefCheck(obj.root_causes, allowed_ids) = "malformed"
         THEN Verdict(FALSE, "malformed root_causes or suggested_actions")
    ELSE Verdict(TRUE, "ok")

validate_llm_output(obj, allowed_ids) ==
    IF obj.kind # "dict" THEN Verdict(FALSE, "output not a dict")
    ELSE IF ~(required \subseteq obj.keys) THEN Verdict(FALSE, "missing keys")
    ELSE IF ~obj.evidence_map.ismap THEN Verdict(FALSE, "evidence_map not a dict")
    ELSE IF RefCheck(obj.root_causes, allowed_ids) = "unknown"
         THEN Verdict(FALSE, "root_causes references unknown id")
    ELSE IF RefCheck(obj.root_causes, allowed_ids) = "malformed"
         THEN Verdict(FALSE, "malformed root_causes or suggested_actions")
    ELSE IF RefCheck(obj.suggested_actions, allowed_ids) = "unknown"
         THEN Verdict(FALSE, "suggested_actions references unknown id")
    ELSE IF RefCheck(obj.suggested_actions, allowed_ids) = "malformed"
         THEN Verdict(FALSE, "malformed root_causes or suggested_actions")
    ELSE Verdict(TRUE, "ok")

\* attach_audit(request_payload, evidence_ids, latency_ms)
attach_audit(request_payload, evidence_ids) ==
    [request |-> request_payload, evidence_used |-> evidence_ids]

(***************************************************************************)
(* Collectors (collectors.py).  The stores are files written outside the   *)
(* request: a log record is [timestamp, host, message], a deploy record    *)
(* [timestamp, message].                                                   *)
(***************************************************************************)
\* default of TriageRequest.time_window_minutes
DefaultWindowMinutes == 30

\* search_logs(..., limit=200)
LogLimit == 200

\* fetch_deploys_stub(..., limit=10)
DeployLimit == 10

\* _parse_iso(ts) returns a datetime (None for an absent or unreadable one)
ParseIsoOk(ts) ==
    ts.form # "none" /\ FromIsoOk(ts)

LogMatches(rec, query) ==
    LET q == Lower(query)
        msg == Lower(rec.message)
        host == Lower(rec.host)
    IN \/ q = <<>>
       \/ Contains(msg, q)
       \/ Contains(host, q)
       \/ (Tokens(q) \cap Tokens(msg)) # {}

\* the loop of search_logs over reversed(all_logs), from record i down
RECURSIVE SearchLogsFrom(_, _, _, _, _)
SearchLogsFrom(all_logs, i, query, cutoff, matches) ==
    IF i = 0 THEN [raised |-> FALSE, items |-> matches]
    ELSE LET rec == all_logs[i]
             ts == rec.timestamp
         IN IF ParseIsoOk(ts) /\ ~IsAware(ts)
            THEN [raised |-> TRUE, items |-> <<>>]   \* naive < aware: TypeError
            ELSE IF ParseIsoOk(ts) /\ ts.wall - ts.off < cutoff
            THEN SearchLogsFrom(all_logs, i - 1, query, cutoff, matches)
            ELSE LET m == IF LogMatches(rec, query) THEN Append(matches, rec) ELSE matches
                 IN IF Len(m) >= LogLimit
                    THEN [raised |-> FALSE, items |-> m]
                    ELSE SearchLogsFrom(all_logs, i - 1, query, cutoff, m)

search_logs(all_logs, query, minutes) ==
    IF all_logs = <<>> THEN [raised |-> FALSE, items |-> <<>>]
    ELSE SearchLogsFrom(all_logs, Len(all_logs), query,
                        NowWall - 60 * (IF minutes = 0 THEN 30 ELSE minutes), <<>>)

DeployMatches(d, query) ==
    LET q == Lower(query)
        msg == Lower(d.message)
    IN Contains(msg, q) \/ \E tok \in Tokens(q) : Contains(msg, tok)

RECURSIVE FilterDeploys(_, _)
FilterDeploys(arr, query) ==
    IF arr = <<>> THEN <<>>
    ELSE (IF DeployMatches(Head(arr), query) THEN <<Head(arr)>> ELSE <<>>)
         \o FilterDeploys(Tail(arr), query)

LastN(s, n) ==
    IF Len(s) <= n THEN s ELSE SubSeq(s, Len(s) - n + 1, Len(s))

\* readable = FALSE: something in the body raises (the file is missing or is not
\* JSON, an entry is no object); the except branch returns []
fetch_deploys_stub(arr, readable, query) ==
    IF ~readable THEN <<>>
    ELSE IF query = <<>> THEN LastN(arr, DeployLimit)
    ELSE LastN(FilterDeploys(arr, query), DeployLimit)

LogIds ==
    <<"log#1", "log#2", "log#3", "log#4", "log#5", "log#6">>

GitIds ==
    <<"git#1", "git#2", "git#3", "git#4", "git#5", "git#6">>

\* the evidence items main.py builds from the collectors' records
BuildEvidence(logs, deploys) ==
    [i \in 1..Len(logs) |->
        [id |-> LogIds[i], type |-> "log",
         text |-> Prefix(logs[i].message, 2000), timestamp |-> logs[i].timestamp]]
    \o
    [i \in 1..Len(deploys) |->
        [id |-> GitIds[i], type |-> "git",
         text |-> Prefix(deploys[i].message, 2000), timestamp |-> deploys[i].timestamp]]

(***************************************************************************)
(* collect_all_evidence (collectors.py): the unified collector with the    *)
(* de-dup loop.  It is cut where it calls search_logs, fetch_deploys_stub  *)
(* and search_metrics: the lists they returned are inputs.  It never reads *)
(* a timestamp, so here a timestamp is the stored value itself: None, or   *)
(* the characters of the string.                                           *)
(***************************************************************************)
\* bound on the metric records search_metrics returned
MaxMetrics == 1

\* the prefix length of the de-dup key, ev.get("text")[:120]
DedupPrefix == 120

\* the cut of an evidence text, [:2000]
TextCut == 2000

MetricIds ==
    <<"metric#1", "metric#2", "metric#3", "metric#4", "metric#5", "metric#6">>

AllSources ==
    {"logs", "deploys", "metrics"}

NoStamp ==
    [none |-> TRUE, raw |-> <<>>]

Stamp(chars) ==
    [none |-> FALSE, raw |-> chars]

\* f"{m.get('timestamp')}": str() of None is "None", of a string the string
StampText(ts) ==
    IF ts.none THEN <<"N","o","n","e">> ELSE ts.raw

DigitChar(d) ==
    DigitChars[d + 1]

\* f"{m.get('value')}" for a natural number
RECURSIVE IntText(_)
IntText(n) ==
    IF n < 10 THEN <<DigitChar(n)>> ELSE IntText(n \div 10) \o <<DigitChar(n % 10)>>

LogEvidence(logs) ==
    [i \in 1..Len(logs) |->
        [id |-> LogIds[i], type |-> "log",
         text |-> Prefix(logs[i].message, TextCut), timestamp |-> logs[i].timestamp]]

DeployEvidence(deploys) ==
    [i \in 1..Len(deploys) |->
        [id |-> GitIds[i], type |-> "git",
         text |-> Prefix(deploys[i].message
                         \o <<" ","-"," ","a","u","t","h","o","r",":">> \o deploys[i].author
                         \o <<" ","-"," ","d","i","f","f","_","s","u","m","m","a","r","y",":">>
                         \o deploys[i].diff_summary,
                         TextCut),
         timestamp |-> deploys[i].timestamp]]

MetricEvidence(metrics) ==
    [i \in 1..Len(metrics) |->
        [id |-> MetricIds[i], type |-> "metric",
         text |-> StampText(metrics[i].timestamp) \o <<" ">> \o metrics[i].host \o <<" ">>
                  \o metrics[i].metric \o <<"=">> \o IntText(metrics[i].value),
         timestamp |-> metrics[i].timestamp]]

\* sources = sources or ["logs", "deploys", "metrics"]; the list before the de-dup loop
GatherEvidence(logs, deploys, metrics, sources) ==
    LET src == IF sources = {} THEN AllSources ELSE sources
    IN (IF "logs" \in src THEN LogEvidence(logs) ELSE <<>>)
       \o (IF "deploys" \in src THEN DeployEvidence(deploys) ELSE <<>>)
       \o (IF "metrics" \in src THEN MetricEvidence(metrics) ELSE <<>>)

DedupKeyWholeText(ev) ==
    <<ev.type, ev.text>>

\* key = (ev.get("type"), ev.get("text")[:120])
DedupKey(ev) ==
    <<ev.type, Prefix(ev.text, DedupPrefix)>>

\* the de-dup loop from item i on, with the keys seen and the output so far
RECURSIVE DedupFrom(_, _, _, _, _)
DedupFrom(evidence, i, seen, out, max_items) ==
    IF i > Len(evidence) THEN out
    ELSE IF DedupKey(evidence[i]) \in seen
         THEN DedupFrom(evidence, i + 1, seen, out, max_items)
         ELSE LET out2 == Append(out, evidence[i])
              IN IF Len(out2) >= max_items
                 THEN out2
                 ELSE DedupFrom(evidence, i + 1, seen \cup {DedupKey(evidence[i])},
                                out2, max_items)

Dedup(evidence, max_items) ==
    DedupFrom(evidence, 1, {}, <<>>, max_items)

collect_all_evidence(logs, deploys, metrics, sources, max_items) ==
    Dedup(GatherEvidence(logs, deploys, metrics, sources), max_items)

(***************************************************************************)
(* build_prompt_and_query (rag.py, the gateway main.py imports).  azure:   *)
(* endpoint, key and deployment are all configured; openai_key: a SaaS key *)
(* is present; resolves: the endpoint's host name resolves; reply: what    *)
(* the provider that is called does.                                       *)
(***************************************************************************)
Raise(exc, provider) ==
    [raised |-> TRUE, exc |-> exc, value |-> NoDoc, provider |-> provider]

Return(value, provider) ==
    [raised |-> FALSE, exc |-> "", value |-> value, provider |-> provider]

\* from resp.choices[0].message.content to the returned value
ParseReply(reply, items, provider) ==
    IF reply.kind = "network_error" THEN Raise("APIConnectionError", provider)
    ELSE IF reply.kind = "auth_error" THEN Raise("AuthenticationError", provider)
    ELSE IF reply.form = "no_json" THEN Raise("ValueError", provider)
    ELSE IF reply.value.kind = "null" THEN Raise("TypeError", provider)
    ELSE IF reply.value.kind = "list"
         THEN IF "evidence_map" \in reply.value.keys
              THEN Return(reply.value, provider)
              ELSE Raise("TypeError", provider)
    ELSE IF "evidence_map" \notin reply.value.keys
         THEN Return([reply.value EXCEPT !.keys = @ \cup {"evidence_map"},
                                         !.evidence_map = ServerEvidenceMap(items)],
                     provider)
    ELSE Return(reply.value, provider)

build_prompt_and_query(items, azure, openai_key, resolves, reply) ==
    IF azure
    THEN IF ~resolves
         THEN Raise("RuntimeError", "none")
         ELSE ParseReply(reply, items, "primary")
    ELSE IF ~openai_key
         THEN Raise("RuntimeError", "none")
         ELSE ParseReply(reply, items, "secondary")

(***************************************************************************)
(* build_prompt_and_query of rag_new.py: the same provider selection and   *)
(* parsing inside a retry loop.  openai_key is the key in effect (the      *)
(* argument, else the configured one); env_key is what get_openai_key()    *)
(* returns when the primary rejects its credentials.                       *)
(***************************************************************************)
\* max_attempts = 2
max_attempts == 2

\* messages = [system, user] before the loop
InitialMessages == 2

AttemptOut(out, primary, secondary) ==
    [raised |-> out.raised, exc |-> out.exc, value |-> out.value,
     primary |-> primary, secondary |-> secondary]

\* the try body with the except OpenAIAuthError branch left out: the error is raised
TryBodyWithoutSwitch(items, azure, openai_key, env_key, resolves, primary, secondary) ==
    IF azure
    THEN IF ~resolves
         THEN AttemptOut(Raise("RuntimeError", "none"), "none", "none")
         ELSE AttemptOut(ParseReply(primary, items, "primary"), primary.kind, "none")
    ELSE IF ~openai_key
         THEN AttemptOut(Raise("RuntimeError", "none"), "none", "none")
         ELSE AttemptOut(ParseReply(secondary, items, "secondary"), "none", secondary.kind)

\* the try body of one pass of the loop: primary and secondary are what the
\* two providers answer if they are asked in this pass
TryBody(items, azure, openai_key, env_key, resolves, primary, secondary) ==
    IF azure
    THEN IF ~resolves
         THEN AttemptOut(Raise("RuntimeError", "none"), "none", "none")
         ELSE IF primary.kind = "auth_error"
              THEN IF env_key
                   THEN AttemptOut(ParseReply(secondary, items, "secondary"),
                                   primary.kind, secondary.kind)
                   ELSE AttemptOut(Raise("AuthenticationError", "primary"),
                                   primary.kind, "none")
              ELSE AttemptOut(ParseReply(primary, items, "primary"), primary.kind, "none")
    ELSE IF ~openai_key
         THEN AttemptOut(Raise("RuntimeError", "none"), "none", "none")
         ELSE AttemptOut(ParseReply(secondary, items, "secondary"), "none", secondary.kind)

NoOutcome ==
    [status |-> "none", exc |-> "", value |-> NoDoc]

GatewayIdle ==
    g = [pc |-> "idle", items |-> <<>>, azure |-> FALSE, openai_key |-> FALSE,
         env_key |-> FALSE, attempt |-> 0, messages |-> 0, last_exc |-> "",
         log |-> <<>>, out |-> NoOutcome]

(***************************************************************************)
(* triage (main.py)                                                        *)
(***************************************************************************)
\* req.max_evidence or 6
DefaultMaxEvidence == 6

\* s[:k] of Python, k of either sign
SliceTo(s, k) ==
    IF k >= 0 THEN Prefix(s, k)
    ELSE Prefix(s, IF Len(s) + k > 0 THEN Len(s) + k ELSE 0)

TopK(ranked, max_evidence) ==
    SliceTo(ranked, IF max_evidence = 0 THEN DefaultMaxEvidence ELSE max_evidence)

FallbackKeys ==
    {"hypothesis", "confidence", "root_causes", "suggested_actions", "evidence_map"}

EmptyEvidenceDocumentAsFallback ==
    [kind |-> "dict", keys |-> FallbackKeys,
     hypothesis |-> "No relevant evidence found for the query.",
     confidence |-> 50,
     root_causes |-> EmptyList,
     suggested_actions |->
        ListOf(<<Action("Inspect logs and increase log density for the service", "low", <<>>)>>),
     evidence_map |-> EmptyMap,
     audit |-> NoAudit]

EmptyEvidenceDocument ==
    [kind |-> "dict", keys |-> FallbackKeys,
     hypothesis |-> "No relevant evidence found for the query.",
     confidence |-> 20,
     root_causes |-> EmptyList,
     suggested_actions |->
        ListOf(<<Action("Inspect logs and increase log density for the service", "low", <<>>)>>),
     evidence_map |-> EmptyMap,
     audit |-> NoAudit]

\* the document of the except branch of step 3
ExceptionFallback(items) ==
    [kind |-> "dict", keys |-> FallbackKeys,
     hypothesis |-> "deterministic fallback: likely issue from top evidence",
     confidence |-> 50,
     root_causes |-> ListOf(<<RootCause(Prefix(items[1].text, 200), <<items[1].id>>)>>),
     suggested_actions |->
        ListOf(<<Action("Investigate top evidence and logs", "low", <<items[1].id>>)>>),
     evidence_map |-> ServerEvidenceMap(items),
     audit |-> NoAudit]

InvalidOutputFallbackLast(items) ==
    [kind |-> "dict", keys |-> FallbackKeys,
     hypothesis |-> "fallback after invalid model output: inspect top evidence manually",
     confidence |-> 45,
     root_causes |->
        ListOf(<<RootCause(Prefix(items[Len(items)].text, 200), <<items[Len(items)].id>>)>>),
     suggested_actions |->
        ListOf(<<Action("Inspect the logs and recent commits", "low", <<items[Len(items)].id>>)>>),
     evidence_map |-> ServerEvidenceMap(items),
     audit |-> NoAudit]

\* the document of the "if not valid" branch of step 4
InvalidOutputFallback(items) ==
    [kind |-> "dict", keys |-> FallbackKeys,
     hypothesis |-> "fallback after invalid model output: inspect top evidence manually",
     confidence |-> 45,
     root_causes |-> ListOf(<<RootCause(Prefix(items[1].text, 200), <<items[1].id>>)>>),
     suggested_actions |->
        ListOf(<<Action("Inspect the logs and recent commits", "low", <<items[1].id>>)>>),
     evidence_map |-> ServerEvidenceMap(items),
     audit |-> NoAudit]

\* llm_json["audit"] = attach_audit(...)
WithAudit(doc, request, evidence_ids) ==
    [doc EXCEPT !.keys = @ \cup {"audit"},
                !.audit = attach_audit(request, evidence_ids)]

NoResult ==
    [status |-> "none", exc |-> "", doc |-> NoDoc]

Http400 ==
    [status |-> "http400", exc |-> "query must be provided", doc |-> NoDoc]

Raised(exc) ==
    [status |-> "raised", exc |-> exc, doc |-> NoDoc]

Returned(doc) ==
    [status |-> "returned", exc |-> "", doc |-> doc]

NoCalls ==
    [collectors |-> 0, scorer |-> 0, model |-> 0, provider |-> 0, validator |-> 0]

NoHist ==
    [logs |-> "none", deploys |-> "none", gateway |-> "none", exc |-> "",
     provider |-> "none", resolves |-> FALSE, model_doc |-> NoDoc,
     valid |-> "none", reason |-> ""]

\* if not req.query or not req.query.strip()
QueryMissing(query) ==
    query = <<>> \/ Strip(query) = <<>>

(***************************************************************************)
(* Inputs of a triage request: the request, the content of the stores at   *)
(* the time the collectors read them, the provider configuration, and the  *)
(* provider's reply.                                                       *)
(***************************************************************************)
TriageQueries ==
    {QEmpty, QBlank, QPool, QOomUpper}

MaxEvidenceValues ==
    {0 - 1, 0, 1, 6}

LogStorePool ==
    { [timestamp |-> ZuluTs(NowWall - 60), host |-> <<"p","o","o","l">>, message |-> <<"x"," ","5">>],
      [timestamp |-> NoTs, host |-> <<"h">>, message |-> <<"p","o","o","l">>],
      [timestamp |-> ZuluTs(NowWall - 120), host |-> <<"h">>, message |-> <<"O","O","M"," ","p","o","o","l"," ","5","0">>],
      [timestamp |-> ZuluTs(5000), host |-> <<"h">>, message |-> <<"p","o","o","l">>],
      [timestamp |-> NaiveTs(NowWall - 60), host |-> <<"h">>, message |-> <<"p","o","o","l">>] }

DeployStorePool ==
    { [timestamp |-> ZuluTs(NowWall - 7200), message |-> <<"p","o","o","l"," ","f","i","x">>],
      [timestamp |-> NoTs, message |-> <<"o","o","m"," ","7">>] }

LogStores ==
    UNION { [1..n -> LogStorePool] : n \in 0..MaxLogs }

DeployStores ==
    UNION { [1..n -> DeployStorePool] : n \in 0..MaxDeploys }

\* main.py line 20: the service starts only with a SaaS key or a full Azure configuration
Envs ==
    { e \in [azure : BOOLEAN, openai_key : BOOLEAN] : e.openai_key \/ e.azure }

ModelDoc(keys, rc, sa, em) ==
    [kind |-> "dict", keys |-> keys,
     hypothesis |-> "model hypothesis", confidence |-> 80,
     root_causes |-> rc, suggested_actions |-> sa,
     evidence_map |-> IF "evidence_map" \in keys THEN em ELSE EmptyMap,
     audit |-> NoAudit]

AllSeven ==
    required \cup {"contributing_factors"}

KeyChoices ==
    {AllSeven, required, FallbackKeys, required \ {"evidence_map"}}

RcCite(ids) ==
    ListOf(<<RootCause(<<"c">>, ids)>>)

SaCite(ids) ==
    ListOf(<<Action("act", "low", ids)>>)

RcChoices ==
    { EmptyList, RcCite(<<"log#1">>), RcCite(<<"log#7">>), RcCite(<<"log#1", "log#2">>),
      RcCite(<<"git#1">>),
      [iter |-> FALSE, items |-> <<>>],
      ListOf(<<[ok |-> FALSE, cause |-> <<>>, evidence |-> <<>>]>>) }

SaChoices ==
    { EmptyList, SaCite(<<"log#1">>), SaCite(<<"log#7">>), SaCite(<<"log#2">>) }

EmChoices ==
    { [ismap |-> TRUE, map |-> ("log#1" :> <<"m">>)],
      [ismap |-> TRUE, map |-> ("log#7" :> <<"m">>)],
      [ismap |-> FALSE, map |-> <<>>] }

EmBase ==
    [ismap |-> TRUE, map |-> ("log#1" :> <<"m">>)]

\* the documents a provider may answer with: each choice varied on its own
ModelDocs ==
    { ModelDoc(k, RcCite(<<"log#1">>), SaCite(<<"log#1">>), EmBase) : k \in KeyChoices }
    \cup { ModelDoc(required, rc, SaCite(<<"log#1">>), EmBase) : rc \in RcChoices }
    \cup { ModelDoc(required, EmptyList, sa, EmBase) : sa \in SaChoices }
    \cup { ModelDoc(required, RcCite(<<"log#1">>), EmptyList, em) : em \in EmChoices }

JsonValues ==
    ModelDocs
    \cup { [NoDoc EXCEPT !.kind = "list"],
           [NoDoc EXCEPT !.kind = "list", !.keys = {"evidence_map"}],
           NoDoc }

ModelReplies ==
    { [kind |-> "network_error", form |-> "", value |-> NoDoc],
      [kind |-> "auth_error", form |-> "", value |-> NoDoc],
      [kind |-> "text", form |-> "no_json", value |-> NoDoc] }
    \cup { [kind |-> "text", form |-> "json", value |-> v] : v \in JsonValues }

(***************************************************************************)
(* The triage handler as a state machine.  It is cut where it calls out:   *)
(* before the collectors, before the scorer, before the gateway, before    *)
(* the validator.                                                          *)
(***************************************************************************)
DedupIdle ==
    /\ d_in = [logs |-> <<>>, deploys |-> <<>>, metrics |-> <<>>, sources |-> {}, max_items |-> 0]
    /\ d_out = [done |-> FALSE, evidence |-> <<>>, items |-> <<>>]

PureIdle ==
    /\ c_in = [items |-> <<>>, query |-> <<>>]
    /\ c_out = [done |-> FALSE, raised |-> FALSE, items |-> <<>>]
    /\ v_in = [obj |-> NoDoc, allowed_ids |-> {}]
    /\ v_out = [done |-> FALSE, valid |-> FALSE, reason |-> ""]
    /\ DedupIdle
    /\ GatewayIdle

TriageIdle ==
    /\ pc = "idle"
    /\ req = NoReq
    /\ evidence_items = <<>>
    /\ top_k = <<>>
    /\ llm_json = NoDoc
    /\ result = NoResult
    /\ calls = NoCalls
    /\ hist = NoHist

Init ==
    /\ TriageIdle
    /\ env \in Envs
    /\ PureIdle

pureVars ==
    <<c_in, c_out, v_in, v_out, d_in, d_out, g>>

\* the request arrives; the empty-query check of lines 90-91
TriageStart(query, max_evidence) ==
    /\ pc = "idle"
    /\ req' = [query |-> query, time_window_minutes |-> DefaultWindowMinutes,
               max_evidence |-> max_evidence]
    /\ IF QueryMissing(query)
       THEN pc' = "done" /\ result' = Http400
       ELSE pc' = "collect" /\ result' = result
    /\ UNCHANGED <<evidence_items, top_k, llm_json, calls, hist, env, pureVars>>

\* step 1: the collectors, the evidence items, the empty-evidence answer
Collect(all_logs, arr, readable) ==
    /\ pc = "collect"
    /\ LET logs == search_logs(all_logs, req.query, req.time_window_minutes)
           deploys == fetch_deploys_stub(arr, readable, req.query)
           items == BuildEvidence(logs.items, deploys)
       IN IF logs.raised
          THEN /\ pc' = "done"
               /\ result' = Raised("TypeError")
               /\ calls' = [calls EXCEPT !.collectors = @ + 1]
               /\ hist' = [hist EXCEPT !.logs = "failed"]
               /\ UNCHANGED evidence_items
          ELSE /\ calls' = [calls EXCEPT !.collectors = @ + 2]
               /\ hist' = [hist EXCEPT !.logs = "ok",
                                       !.deploys = IF readable THEN "ok" ELSE "failed"]
               /\ evidence_items' = items
               /\ IF items = <<>>
                  THEN /\ pc' = "done"
                       /\ result' = Returned(WithAudit(EmptyEvidenceDocument, req, <<>>))
                  ELSE /\ pc' = "rank"
                       /\ result' = result
    /\ UNCHANGED <<req, top_k, llm_json, env, pureVars>>

\* step 2: correlate_evidence and the top-K slice
Rank ==
    /\ pc = "rank"
    /\ calls' = [calls EXCEPT !.scorer = @ + 1]
    /\ LET ranked == correlate_evidence(evidence_items, req.query)
       IN IF ranked.raised
          THEN pc' = "done" /\ result' = Raised("TypeError") /\ UNCHANGED top_k
          ELSE /\ pc' = "llm"
               /\ top_k' = TopK(ranked.items, req.max_evidence)
               /\ result' = result
    /\ UNCHANGED <<req, evidence_items, llm_json, hist, env, pureVars>>

\* step 3: build_prompt_and_query, and the except branch; calls.provider counts
\* the requests sent to a provider (client.chat.completions.create)
CallModel(resolves, reply) ==
    /\ pc = "llm"
    /\ LET out == build_prompt_and_query(top_k, env.azure, env.openai_key, resolves, reply)
       IN /\ calls' = [calls EXCEPT !.model = @ + 1,
                                    !.provider = @ + IF out.provider = "none" THEN 0 ELSE 1]
          /\ hist' = [hist EXCEPT !.gateway = IF out.raised THEN "raised" ELSE "returned",
                                  !.exc = out.exc, !.provider = out.provider,
                                  !.resolves = resolves, !.model_doc = out.value]
          /\ IF ~out.raised
             THEN pc' = "validate" /\ llm_json' = out.value /\ result' = result
             ELSE IF top_k = <<>>
                  THEN pc' = "done" /\ result' = Raised("IndexError") /\ UNCHANGED llm_json
                  ELSE /\ pc' = "validate"
                       /\ llm_json' = ExceptionFallback(top_k)
                       /\ result' = result
    /\ UNCHANGED <<req, evidence_items, top_k, env, pureVars>>

\* step 4: validate_llm_output, the fallback, the audit, the answer
ValidateAndReturn ==
    /\ pc = "validate"
    /\ calls' = [calls EXCEPT !.validator = @ + 1]
    /\ LET v == validate_llm_output(llm_json, IdSet(top_k))
       IN /\ hist' = [hist EXCEPT !.valid = IF v.valid THEN "pass" ELSE "fail",
                                  !.reason = v.reason]
          /\ pc' = "done"
          /\ IF v.valid
             THEN /\ llm_json' = WithAudit(llm_json, req, IdsOf(top_k))
                  /\ result' = Returned(llm_json')
             ELSE IF top_k = <<>>
                  THEN result' = Raised("IndexError") /\ UNCHANGED llm_json
                  ELSE /\ llm_json' = WithAudit(InvalidOutputFallback(top_k), req, IdsOf(top_k))
                       /\ result' = Returned(llm_json')
    /\ UNCHANGED <<req, evidence_items, top_k, env, pureVars>>

Next ==
    \/ \E query \in TriageQueries, max_evidence \in MaxEvidenceValues :
          TriageStart(query, max_evidence)
    \/ \E all_logs \in LogStores, arr \in DeployStores, readable \in BOOLEAN :
          Collect(all_logs, arr, readable)
    \/ Rank
    \/ \E resolves \in BOOLEAN, reply \in ModelReplies : CallModel(resolves, reply)
    \/ ValidateAndReturn

Spec ==
    Init /\ [][Next]_vars

(***************************************************************************)
(* correlate_evidence as a pure function: the arguments are drawn by the   *)
(* initial state, one step applies the function.                           *)
(***************************************************************************)
CorrInit ==
    /\ TriageIdle
    /\ env = [azure |-> FALSE, openai_key |-> TRUE]
    /\ c_in \in [items : EvidenceLists, query : ScorerQueries]
    /\ c_out = [done |-> FALSE, raised |-> FALSE, items |-> <<>>]
    /\ v_in = [obj |-> NoDoc, allowed_ids |-> {}]
    /\ v_out = [done |-> FALSE, valid |-> FALSE, reason |-> ""]
    /\ DedupIdle
    /\ GatewayIdle

Correlate ==
    /\ ~c_out.done
    /\ LET out == correlate_evidence(c_in.items, c_in.query)
       IN c_out' = [done |-> TRUE, raised |-> out.raised, items |-> out.items]
    /\ UNCHANGED <<pc, req, evidence_items, top_k, llm_json, result, calls, hist, env,
                   c_in, v_in, v_out, d_in, d_out, g>>

CorrNext ==
    Correlate

CorrSpec ==
    CorrInit /\ [][CorrNext]_vars

(***************************************************************************)
(* validate_llm_output as a pure function.                                 *)
(***************************************************************************)
ValidatorCandidates ==
    { ModelDoc(k, rc, sa, em) :
        k \in KeyChoices, rc \in RcChoices, sa \in SaChoices, em \in EmChoices }
    \cup { [NoDoc EXCEPT !.kind = "list", !.keys = {"evidence_map"}] }

AllowedIdChoices ==
    { {}, {"log#1"}, {"log#1", "git#1"}, {"log#1", "log#2"} }

ValInit ==
    /\ TriageIdle
    /\ env = [azure |-> FALSE, openai_key |-> TRUE]
    /\ c_in = [items |-> <<>>, query |-> <<>>]
    /\ c_out = [done |-> FALSE, raised |-> FALSE, items |-> <<>>]
    /\ v_in \in [obj : ValidatorCandidates, allowed_ids : AllowedIdChoices]
    /\ v_out = [done |-> FALSE, valid |-> FALSE, reason |-> ""]
    /\ DedupIdle
    /\ GatewayIdle

Validate ==
    /\ ~v_out.done
    /\ LET v == validate_llm_output(v_in.obj, v_in.allowed_ids)
       IN v_out' = [done |-> TRUE, valid |-> v.valid, reason |-> v.reason]
    /\ UNCHANGED <<pc, req, evidence_items, top_k, llm_json, result, calls, hist, env,
                   c_in, c_out, v_in, d_in, d_out, g>>

ValNext ==
    Validate

ValSpec ==
    ValInit /\ [][ValNext]_vars

(***************************************************************************)
(* collect_all_evidence as a pure function of what the three collectors    *)
(* returned, of sources and of max_items.                                  *)
(***************************************************************************)
LongA ==
    Repeat("x", 150) \o <<"a">>

LongB ==
    Repeat("x", 150) \o <<"b">>

\* differs from LongA at character 121, the first one outside the key
Edge121 ==
    Repeat("x", 120) \o <<"y">>

\* differs from LongA at character 120, the last one inside the key
Edge120 ==
    Repeat("x", 119) \o <<"y">>

DedupLogPool ==
    { [timestamp |-> Stamp(<<"t","1">>), host |-> <<"h">>, message |-> LongA],
      [timestamp |-> NoStamp, host |-> <<"h">>, message |-> LongB],
      [timestamp |-> Stamp(<<"t","2">>), host |-> <<"h">>, message |-> Edge121],
      [timestamp |-> Stamp(<<"t","3">>), host |-> <<"h">>, message |-> Edge120],
      [timestamp |-> Stamp(<<"t","4">>), host |-> <<"h">>, message |-> TxtPool] }

DedupDeployPool ==
    { [timestamp |-> Stamp(<<"t","5">>), message |-> TxtPool, author |-> <<"a">>,
       diff_summary |-> <<"d">>],
      [timestamp |-> NoStamp, message |-> TxtPool, author |-> <<"b">>,
       diff_summary |-> <<"d">>] }

DedupMetricPool ==
    { [timestamp |-> Stamp(<<"t","6">>), host |-> <<"d","b">>, metric |-> <<"p">>, value |-> 85],
      [timestamp |-> NoStamp, host |-> <<"d","b">>, metric |-> <<"p">>, value |-> 7] }

SourceChoices ==
    { {}, {"logs"}, {"deploys", "metrics"} }

MaxItemsChoices ==
    {1, 2, 50}

DedupInit ==
    /\ TriageIdle
    /\ env = [azure |-> FALSE, openai_key |-> TRUE]
    /\ c_in = [items |-> <<>>, query |-> <<>>]
    /\ c_out = [done |-> FALSE, raised |-> FALSE, items |-> <<>>]
    /\ v_in = [obj |-> NoDoc, allowed_ids |-> {}]
    /\ v_out = [done |-> FALSE, valid |-> FALSE, reason |-> ""]
    /\ GatewayIdle
    /\ d_in \in [logs : UNION { [1..n -> DedupLogPool] : n \in 0..MaxLogs },
                 deploys : UNION { [1..n -> DedupDeployPool] : n \in 0..MaxDeploys },
                 metrics : UNION { [1..n -> DedupMetricPool] : n \in 0..MaxMetrics },
                 sources : SourceChoices,
                 max_items : MaxItemsChoices]
    /\ d_out = [done |-> FALSE, evidence |-> <<>>, items |-> <<>>]

CollectAll ==
    /\ ~d_out.done
    /\ d_out' = [done |-> TRUE,
                 evidence |-> GatherEvidence(d_in.logs, d_in.deploys, d_in.metrics,
                                             d_in.sources),
                 items |-> collect_all_evidence(d_in.logs, d_in.deploys, d_in.metrics,
                                                d_in.sources, d_in.max_items)]
    /\ UNCHANGED <<pc, req, evidence_items, top_k, llm_json, result, calls, hist, env,
                   c_in, c_out, v_in, v_out, d_in, g>>

DedupNext ==
    CollectAll

DedupSpec ==
    DedupInit /\ [][DedupNext]_vars

(***************************************************************************)
(* Properties of the triage handler (specification Spec).                  *)
(***************************************************************************)
CitedBy(doc) ==
    Cited(doc.root_causes) \cup Cited(doc.suggested_actions)

\* C1: for every request with a non-empty query and at least one collected
\* evidence item, whatever the model invocation does, triage ends by
\* returning an RCA document that carries an audit field.
C1_ModelFailureNeverPropagates ==
    (/\ pc = "done"
     /\ ~QueryMissing(req.query)
     /\ evidence_items # <<>>
     /\ hist.gateway # "none")
    => (result.status = "returned" /\ "audit" \in result.doc.keys)

\* C2: every document triage returns, on every path, has all seven required
\* top-level RCADocument fields.
C2_ReturnedHasRequiredFields ==
    result.status = "returned" => AllSeven \subseteq result.doc.keys

\* C3: in every document triage returns, each evidence id cited in
\* root_causes[].evidence or suggested_actions[].evidence is the id of one of
\* the top-K items offered to the model, which are the ids of audit.evidence_used.
C3_CitedIdsAreTopK ==
    result.status = "returned"
    => /\ result.doc.audit.evidence_used = IdsOf(top_k)
       /\ CitedBy(result.doc) \subseteq IdSet(top_k)

C3_Witness ==
    /\ result.status = "returned"
    /\ hist.gateway = "returned"
    /\ hist.valid = "pass"
    /\ Cited(result.doc.root_causes) # {}
    /\ Cited(result.doc.suggested_actions) # {}
    /\ Len(evidence_items) > Len(top_k)

C6_RejectedDocumentFallsBack ==
    (pc = "done" /\ hist.gateway = "returned" /\ hist.valid = "fail")
    => /\ calls.model = 1
       /\ result.status = "returned"
       /\ result.doc.hypothesis
            = "fallback after invalid model output: inspect top evidence manually"
       /\ CitedBy(result.doc) = {top_k[1].id}

\* C7: when the collectors return no evidence for a non-empty query, triage
\* returns without invoking the model, and the returned document has an empty
\* root_causes list and a fixed confidence below that of any fallback document.
C7_EmptyEvidenceShortCircuit ==
    (/\ pc = "done"
     /\ ~QueryMissing(req.query)
     /\ calls.collectors = 2
     /\ evidence_items = <<>>)
    => /\ result.status = "returned"
       /\ calls.model = 0
       /\ hist.gateway = "none"
       /\ result.doc.root_causes = EmptyList
       /\ result.doc.confidence = 20
       /\ LET one == <<[id |-> "log#1", text |-> <<>>]>>
          IN /\ result.doc.confidence < ExceptionFallback(one).confidence
             /\ result.doc.confidence < InvalidOutputFallback(one).confidence

C7_Witness ==
    /\ pc = "done"
    /\ ~QueryMissing(req.query)
    /\ calls.collectors = 2
    /\ evidence_items = <<>>
    /\ result.status = "returned"

\* C8: triage answers with the bad-request error exactly when the query is
\* empty or whitespace-only, then without any collector, scorer or model call;
\* for every non-empty query the answer is an RCA document with an audit field.
C8_BadRequestIffEmptyQuery ==
    pc = "done"
    => /\ (result.status = "http400") <=> QueryMissing(req.query)
       /\ result.status = "http400"
            => (calls.collectors = 0 /\ calls.scorer = 0 /\ calls.model = 0)
       /\ ~QueryMissing(req.query)
            => (result.status = "returned" /\ "audit" \in result.doc.keys)

(***************************************************************************)
(* Properties of validate_llm_output (specification ValSpec).              *)
(***************************************************************************)
\* C4: validate_llm_output fails every candidate in which some entry of a
\* root_causes[].evidence or suggested_actions[].evidence list is not a member
\* of allowed_ids, also when the id is well-formed and every other check passes.
C4_UnknownIdRejected ==
    (v_out.done /\ ~(CitedBy(v_in.obj) \subseteq v_in.allowed_ids)) => ~v_out.valid

C4_Witness ==
    /\ v_out.done
    /\ v_in.obj.kind = "dict"
    /\ required \subseteq v_in.obj.keys
    /\ v_in.obj.evidence_map.ismap
    /\ RefCheck(v_in.obj.root_causes, v_in.allowed_ids) = "ok"
    /\ Cited(v_in.obj.suggested_actions) = {"log#2"}
    /\ "log#2" \notin v_in.allowed_ids
    /\ v_out.reason = "suggested_actions references unknown id"

(***************************************************************************)
(* Properties of correlate_evidence (specification CorrSpec).              *)
(***************************************************************************)
\* C9: every item correlate_evidence returns has an integer score between 0
\* and 100, also when all the bonuses apply at once.
C9_ScoreInRange ==
    (c_out.done /\ ~c_out.raised)
    => \A i \in 1..Len(c_out.items) :
          c_out.items[i].score \in Int /\ 0 <= c_out.items[i].score /\ c_out.items[i].score <= 100

C9_Witness ==
    /\ c_out.done /\ ~c_out.raised
    /\ \E i \in 1..Len(c_out.items) :
          LET ev == c_out.items[i]
              text == Lower(ev.text)
          IN /\ ev.type = "metric"
             /\ SeverityBump(text) = 30
             /\ OverlapBump(Tokens(Lower(c_in.query)), text) = 25
             /\ NumericBump(text) = 5
             /\ RecencyBump(ev.timestamp) = 20
             /\ TypeBump(ev.type, text) = 10
             /\ ev.score = 100

\* the claim's reading of a timestamp: does it parse, and to which instant
ClaimParses(ts) ==
    ts.form # "none" /\ FromIsoOk(ts)

\* a is at least as recent as b, an absent or unparsable timestamp being the oldest instant
ClaimAtLeastAsRecent(a, b) ==
    \/ ~ClaimParses(b)
    \/ ClaimParses(a) /\ ClaimParses(b) /\ a.wall - a.off >= b.wall - b.off

\* C10: the list correlate_evidence returns is ordered descending by (score,
\* timestamp): an item placed before another has a higher score, or the same
\* score and a timestamp at least as recent, an absent or unparsable timestamp
\* counting as the oldest possible instant.
C10_SortedByScoreThenRecency ==
    (c_out.done /\ ~c_out.raised)
    => \A i, j \in 1..Len(c_out.items) :
          i < j =>
             \/ c_out.items[i].score > c_out.items[j].score
             \/ /\ c_out.items[i].score = c_out.items[j].score
                /\ ClaimAtLeastAsRecent(c_out.items[i].timestamp, c_out.items[j].timestamp)

(***************************************************************************)
(* The retry loop of rag_new.build_prompt_and_query as a state machine:    *)
(* the call, then one step per pass of the loop.  g.log keeps, per pass,   *)
(* the attempt number, the length of the message history sent, which       *)
(* providers were asked and what the pass ended with.                      *)
(***************************************************************************)
GwItems ==
    { <<[id |-> "log#1", type |-> "log", text |-> TxtPool, timestamp |-> NoTs]>>,
      <<[id |-> "log#1", type |-> "log", text |-> TxtOom50, timestamp |-> NoTs],
        [id |-> "git#1", type |-> "git", text |-> TxtPool, timestamp |-> NoTs]>> }

GwDocNoMap ==
    ModelDoc(required \ {"evidence_map"}, RcCite(<<"log#1">>), EmptyList, EmptyMap)

GwDocOwnMap ==
    ModelDoc(required, RcCite(<<"log#1">>), EmptyList, EmBase)

GwReplies ==
    { [kind |-> "network_error", form |-> "", value |-> NoDoc],
      [kind |-> "auth_error", form |-> "", value |-> NoDoc],
      [kind |-> "text", form |-> "no_json", value |-> NoDoc],
      [kind |-> "text", form |-> "json", value |-> NoDoc],
      [kind |-> "text", form |-> "json", value |-> GwDocNoMap],
      [kind |-> "text", form |-> "json", value |-> GwDocOwnMap] }

\* the caller passes the configured key (main.py: OPENAI_KEY = get_openai_key())
GwConfigs ==
    { c \in [azure : BOOLEAN, openai_key : BOOLEAN, env_key : BOOLEAN] :
        c.openai_key = c.env_key }

GwInit ==
    /\ TriageIdle
    /\ env = [azure |-> FALSE, openai_key |-> TRUE]
    /\ c_in = [items |-> <<>>, query |-> <<>>]
    /\ c_out = [done |-> FALSE, raised |-> FALSE, items |-> <<>>]
    /\ v_in = [obj |-> NoDoc, allowed_ids |-> {}]
    /\ v_out = [done |-> FALSE, valid |-> FALSE, reason |-> ""]
    /\ DedupIdle
    /\ GatewayIdle

gwOther ==
    <<pc, req, evidence_items, top_k, llm_json, result, calls, hist, env,
      c_in, c_out, v_in, v_out, d_in, d_out>>

\* build_prompt_and_query(evidence_items, openai_key) is called: lines 79-108
GwCall(items, cfg) ==
    /\ g.pc = "idle"
    /\ g' = [g EXCEPT !.pc = "loop", !.items = items, !.azure = cfg.azure,
                      !.openai_key = cfg.openai_key, !.env_key = cfg.env_key,
                      !.attempt = 1, !.messages = InitialMessages]
    /\ UNCHANGED gwOther

\* one pass of the loop, lines 109-155, and the raise of line 156 after the last
GwAttempt(resolves, primary, secondary) ==
    /\ g.pc = "loop"
    /\ g.attempt <= max_attempts
    /\ LET a == TryBody(g.items, g.azure, g.openai_key, g.env_key, resolves,
                        primary, secondary)
           entry == [attempt |-> g.attempt, messages |-> g.messages,
                     primary |-> a.primary, secondary |-> a.secondary,
                     reply |-> IF a.secondary # "none" THEN secondary
                               ELSE IF a.primary # "none" THEN primary
                               ELSE [kind |-> "none", form |-> "", value |-> NoDoc],
                     raised |-> a.raised, exc |-> a.exc]
       IN IF ~a.raised
          THEN g' = [g EXCEPT !.pc = "done", !.log = Append(@, entry),
                              !.out = [status |-> "returned", exc |-> "", value |-> a.value]]
          ELSE IF g.attempt < max_attempts
               THEN g' = [g EXCEPT !.log = Append(@, entry), !.last_exc = a.exc,
                                   !.messages = @ + 1, !.attempt = @ + 1]
               ELSE g' = [g EXCEPT !.pc = "done", !.log = Append(@, entry),
                                   !.last_exc = a.exc, !.attempt = @ + 1,
                                   !.out = [status |-> "raised", exc |-> a.exc,
                                            value |-> NoDoc]]
    /\ UNCHANGED gwOther

GwNext ==
    \/ \E items \in GwItems, cfg \in GwConfigs : GwCall(items, cfg)
    \/ \E resolves \in BOOLEAN, primary \in GwReplies, secondary \in GwReplies :
          GwAttempt(resolves, primary, secondary)

GwSpec ==
    GwInit /\ [][GwNext]_vars

(***************************************************************************)
(* Further properties of validate_llm_output (specification ValSpec) and   *)
(* of correlate_evidence (specification CorrSpec).                         *)
(***************************************************************************)
\* C17: validate_llm_output passes only a structured object that has all seven
\* top-level fields (hypothesis, confidence, impact, root_causes,
\* contributing_factors, suggested_actions, evidence_map) and whose
\* evidence_map is a mapping.
C17_PassNeedsSevenFields ==
    (v_out.done /\ v_out.valid)
        => /\ v_in.obj.kind = "dict"
           /\ {"hypothesis", "confidence", "impact", "root_causes", "contributing_factors",
               "suggested_actions", "evidence_map"} \subseteq v_in.obj.keys
           /\ v_in.obj.evidence_map.ismap

\* the base weights of the specification's scoring table
ClaimBase(type) ==
    CASE type = "metric" -> 40
      [] type = "search_log" -> 30
      [] type = "log" -> 20
      [] type = "deploy" -> 10
      [] OTHER -> 5

ClaimMin(a, b) ==
    IF a < b THEN a ELSE b

\* min(100, base + bonuses) as the specification states it
ClaimScore(ev, query) ==
    LET text == Lower(ev.text)
        toks == Tokens(text)
    IN ClaimMin(100,
         ClaimBase(ev.type)
         + (IF \E k \in 1..Len(severity_keywords) : Contains(text, severity_keywords[k])
            THEN 30 ELSE 0)
         + (IF (Tokens(Lower(query)) \cap toks) # {} THEN 25 ELSE 0)
         + (IF \E tok \in toks : IsDigit(tok) /\ Len(tok) <= 4 THEN 5 ELSE 0)
         + (IF ClaimParses(ev.timestamp)
               /\ NowWall - ev.timestamp.wall <= 3600
               /\ ev.timestamp.wall - NowWall <= 3600
            THEN 20 ELSE 0)
         + (IF ev.type = "metric"
               /\ (Contains(text, <<"%">>) \/ \E tok \in toks : IsDigit(tok) /\ IntOf(tok) >= 80)
            THEN 10 ELSE 0)
         + (IF ev.type = "search_log" /\ Len(text) > 200 THEN 8 ELSE 0))

ClaimPoolScenario ==
    /\ c_in.query = QPool
    /\ Len(c_in.items) = 2
    /\ c_in.items[1].type = "log" /\ c_in.items[1].text = TxtPoolExhausted
    /\ c_in.items[2].type = "deploy" /\ c_in.items[2].text = TxtPoolCommit

\* C15: the score of every item is min(100, base + bonuses) with the base
\* weights metric 40, search_log 30, log 20, deploy 10, other 5 and the six
\* bonuses of the scoring table; in the pool scenario the log item scores 75,
\* the deploy item 35, and the order is [log, deploy].
C15_ScoreFollowsTable ==
    (c_out.done /\ ~c_out.raised)
        => /\ \A i \in 1..Len(c_out.items) :
                 c_out.items[i].score
                    = ClaimScore([type |-> c_out.items[i].type, text |-> c_out.items[i].text,
                                  timestamp |-> c_out.items[i].timestamp], c_in.query)
           /\ ClaimPoolScenario
                 => /\ c_out.items[1].id = c_in.items[1].id /\ c_out.items[1].score = 75
                    /\ c_out.items[2].id = c_in.items[2].id /\ c_out.items[2].score = 35

(***************************************************************************)
(* Properties of the gateway as triage uses it (specification Spec).       *)
(***************************************************************************)
\* the de-duplication key of the specification: (type, first 120 characters of text)
ClaimKey(ev) ==
    <<ev.type, SubSeq(ev.text, 1, IF Len(ev.text) < 120 THEN Len(ev.text) ELSE 120)>>

\* the failures of an attempt that the retry policy names
ClaimRetriedFailures ==
    {"APIConnectionError", "ValueError", "AuthenticationError"}

\* C12: for one triage request the gateway makes at most 2 model attempts,
\* and when the first attempt fails (network error, non-JSON response,
\* authentication failure) a second attempt is made before the request is
\* routed to the fallback.
C12_SecondAttemptAfterFailure ==
    /\ calls.provider <= 2
    /\ (/\ pc \in {"validate", "done"}
        /\ hist.gateway = "raised"
        /\ hist.exc \in ClaimRetriedFailures)
       => calls.provider = 2

\* C13: whenever build_prompt_and_query returns a parsed model document, its
\* evidence_map is the server-built mapping of the supplied evidence items (id
\* to text excerpt), whether or not the model's output had an evidence_map.
C13_EvidenceMapIsServerBuilt ==
    (pc = "validate" /\ hist.gateway = "returned")
        => llm_json.evidence_map = ServerEvidenceMap(top_k)

\* C14: when the primary provider is unconfigured, or configured with an
\* endpoint host name that does not resolve, and a secondary credential is
\* present, the secondary provider is invoked; an unresolvable primary host
\* name never leads to a request to the primary.
C14_SecondaryWhenPrimaryUnusable ==
    (pc \in {"validate", "done"} /\ hist.gateway # "none")
        => /\ (env.openai_key /\ (~env.azure \/ ~hist.resolves))
                  => hist.provider = "secondary"
           /\ (env.azure /\ ~hist.resolves) => hist.provider # "primary"

ClaimMapKeys(doc) ==
    IF doc.evidence_map.ismap THEN DOMAIN doc.evidence_map.map ELSE {}

\* C16: in every document triage returns, each evidence id cited in
\* root_causes[].evidence or suggested_actions[].evidence is a key of that
\* document's evidence_map.
C16_CitedIdsAreMapKeys ==
    result.status = "returned" => CitedBy(result.doc) \subseteq ClaimMapKeys(result.doc)

\* C18: the evidence set that is scored, sliced to top-K and offered to the
\* model never holds two items with the same (type, first 120 characters of
\* text), whatever records the collectors return.
C18_EvidenceHasNoDuplicateKey ==
    /\ \A i, j \in 1..Len(evidence_items) :
          i # j => ClaimKey(evidence_items[i]) # ClaimKey(evidence_items[j])
    /\ \A i, j \in 1..Len(top_k) :
          i # j => ClaimKey(top_k[i]) # ClaimKey(top_k[j])

(***************************************************************************)
(* Properties of collect_all_evidence (specification DedupSpec).           *)
(***************************************************************************)
\* a is b with some items left out, the order kept
RECURSIVE ClaimSubsequence(_, _)
ClaimSubsequence(a, b) ==
    IF a = <<>> THEN TRUE
    ELSE IF b = <<>> THEN FALSE
    ELSE IF Head(a) = Head(b) THEN ClaimSubsequence(Tail(a), Tail(b))
    ELSE ClaimSubsequence(a, Tail(b))

\* C11: the output of the de-dup loop is a subsequence of its input (logs,
\* then deploys, then metrics) in which no (type, text[:120]) key occurs
\* twice, and an item that survives is the first input item with its key; so
\* two log items whose texts differ only after character 150 collapse to one.
C11_DedupKeepsFirstPerKey ==
    d_out.done =>
        /\ ClaimSubsequence(d_out.items, d_out.evidence)
        /\ \A i, j \in 1..Len(d_out.items) :
              i # j => ClaimKey(d_out.items[i]) # ClaimKey(d_out.items[j])
        /\ \A k \in 1..Len(d_out.items) :
              \E i \in 1..Len(d_out.evidence) :
                 /\ d_out.evidence[i] = d_out.items[k]
                 /\ \A h \in 1..(i - 1) :
                       ClaimKey(d_out.evidence[h]) # ClaimKey(d_out.items[k])

\* two log items that differ only after character 150 went in, one came out
C11_Witness ==
    /\ d_out.done
    /\ Len(d_out.evidence) >= 2
    /\ d_out.evidence[1].text = LongA
    /\ d_out.evidence[2].text = LongB
    /\ d_in.max_items = 50
    /\ Len(d_out.items) = Len(d_out.evidence) - 1
    /\ d_out.items[1].text = LongA

(***************************************************************************)
(* Properties of the retrying gateway (specification GwSpec).              *)
(***************************************************************************)
\* C19: with neither the primary provider nor a secondary credential
\* configured, build_prompt_and_query fails with a configuration error on the
\* first attempt: no corrective message is appended and no second attempt is
\* made.
C19_ConfigErrorNotRetried ==
    (g.pc # "idle" /\ ~g.azure /\ ~g.openai_key /\ ~g.env_key)
        => /\ Len(g.log) <= 1
           /\ g.messages = 2
           /\ Len(g.log) = 1
                 => /\ g.pc = "done"
                    /\ g.out.status = "raised"
                    /\ g.out.exc = "RuntimeError"

ClaimGoodReply(reply) ==
    reply.kind = "text" /\ reply.form = "json" /\ reply.value.kind = "dict"

\* C20: in the retrying gateway an authentication failure of the primary
\* provider leads, when a secondary credential exists, to a request to the
\* secondary provider inside the same attempt, the attempt counter is not
\* advanced by the switch, and a successful secondary response is parsed and
\* returned as that attempt's result; without a secondary credential the
\* authentication error is an ordinary attempt failure.
C20_AuthFailureSwitchesInSameAttempt ==
    /\ Len(g.log) <= 2
    /\ \A i \in 1..Len(g.log) :
          LET e == g.log[i]
          IN e.primary = "auth_error"
             => /\ e.attempt = i
                /\ Len(g.log) > i => g.log[i + 1].attempt = i + 1
                /\ IF g.env_key
                   THEN /\ e.secondary # "none"
                        /\ ClaimGoodReply(e.reply)
                              => /\ ~e.raised
                                 /\ i = Len(g.log)
                                 /\ g.pc = "done"
                                 /\ g.out.status = "returned"
                                 /\ g.out.value.kind = "dict"
                                 /\ g.out.value.hypothesis = e.reply.value.hypothesis
                                 /\ g.out.value.root_causes = e.reply.value.root_causes
                                 /\ "evidence_map" \in g.out.value.keys
                   ELSE /\ e.secondary = "none"
                        /\ e.raised
                        /\ e.exc = "AuthenticationError"
                        /\ IF i < 2
                           THEN IF Len(g.log) = i
                                THEN /\ g.pc = "loop"
                                     /\ g.attempt = i + 1
                                     /\ g.messages = e.messages + 1
                                ELSE g.log[i + 1].messages = e.messages + 1
                           ELSE /\ g.pc = "done"
                                /\ g.out.status = "raised"
                                /\ g.out.exc = "AuthenticationError"

\* the primary rejected its credentials in the second attempt, the secondary
\* answered a document in that same attempt, and the gateway returned it
C20_Witness ==
    /\ g.pc = "done"
    /\ g.env_key
    /\ Len(g.log) = 2
    /\ g.log[2].attempt = 2
    /\ g.log[2].primary = "auth_error"
    /\ g.log[2].secondary = "text"
    /\ g.out.status = "returned"
    /\ g.out.value.evidence_map = ServerEvidenceMap(g.items)

(***************************************************************************)
(* Failure handling of the collectors and of the top-K slice               *)
(* (specification Spec), of the sort (CorrSpec), and the success path.     *)
(***************************************************************************)
\* C21: when search_logs or fetch_deploys_stub fails during a request, that
\* source contributes nothing, triage goes on with the evidence of the other
\* source and still returns an RCA document (the empty-evidence document when
\* nothing remains), not an error.
C21_SourceFailureIsRecovered ==
    (pc = "done" /\ (hist.logs = "failed" \/ hist.deploys = "failed"))
        => /\ result.status = "returned"
           /\ hist.deploys = "failed"
                 => \A i \in 1..Len(evidence_items) : evidence_items[i].type # "git"
           /\ hist.logs = "failed"
                 => \A i \in 1..Len(evidence_items) : evidence_items[i].type # "log"
           /\ evidence_items = <<>> => result.doc.root_causes = EmptyList

\* C22: for every accepted max_evidence (0, negative, larger than the evidence
\* count), a non-empty evidence list gives a non-empty top-K slice, so the
\* access to top_k[0] in the two fallback branches never raises.
C22_TopKNonEmpty ==
    /\ (pc \in {"llm", "validate"} /\ evidence_items # <<>>) => top_k # <<>>
    /\ result.exc # "IndexError"

\* C23: correlate_evidence completes without raising for every evidence list,
\* whatever mix of zone-qualified, zone-less, unparsable and absent timestamps
\* its items carry, also when items of equal score carry different kinds.
C23_CorrelateNeverRaises ==
    c_out.done => ~c_out.raised

ClaimCitedOk(list, ids) ==
    /\ list.iter
    /\ \A i \in 1..Len(list.items) :
          /\ list.items[i].ok
          /\ \A j \in 1..Len(list.items[i].evidence) : list.items[i].evidence[j] \in ids

\* a document with exactly the five fields the system prompt asks for, citing
\* only ids of the evidence supplied
ClaimPromptCompliant(doc, items) ==
    /\ doc.kind = "dict"
    /\ doc.keys = {"hypothesis", "confidence", "root_causes", "suggested_actions",
                   "evidence_map"}
    /\ doc.evidence_map.ismap
    /\ ClaimCitedOk(doc.root_causes, {items[i].id : i \in 1..Len(items)})
    /\ ClaimCitedOk(doc.suggested_actions, {items[i].id : i \in 1..Len(items)})

\* C24: a model response that is a JSON object with exactly the fields the
\* system prompt asks for and that cites only supplied evidence ids passes
\* validate_llm_output and is returned to the caller, not replaced by the
\* fallback document.
C24_CompliantDocumentIsReturned ==
    (/\ pc = "done"
     /\ hist.gateway = "returned"
     /\ ClaimPromptCompliant(hist.model_doc, top_k))
        => /\ hist.valid = "pass"
           /\ result.status = "returned"
           /\ result.doc.hypothesis = hist.model_doc.hypothesis
           /\ result.doc.root_causes = hist.model_doc.root_causes

====
